---- MODULE Spec2Model ----
(***************************************************************************)
(* ContentManager of tales-backend (src/scripts/content-manager.new.ts,    *)
(* with verifyContent and the earlier uploadMedia and multi-gateway        *)
(* retrieveContent of src/scripts/content-manager.old.ts): validation,     *)
(* compression, the retried upload to the primary store and to the pin     *)
(* service, and retrieval with decompression.  The contracts               *)
(* src/contracts/TalesRegistry.sol and src/contracts/TalesUserRegistry.sol *)
(* are modelled next to it, each under a specification of its own.         *)
(*                                                                         *)
(* JavaScript values are modelled as records of one shape per type, so     *)
(* that a missing field, a field of the wrong type and a well-typed field  *)
(* can all be written down.  A string is kept run-length encoded           *)
(* (<<[c |-> "a", n |-> 1001]>> is "a".repeat(1001)), so that the sizes    *)
(* the code compares against (1000, 100000) are the real ones.             *)
(***************************************************************************)
EXTENDS Integers, Sequences, FiniteSets, TLC

VARIABLES
    pc,           \* where the call in flight stands
    content,      \* the caller's record (argument of uploadContent)
    doc,          \* JSON.stringify(compressedContent): the bytes uploaded
    i,            \* loop index of retry()
    lastError,    \* lastError of retry()
    storeLog,     \* outcome of every nftstorage.storeBlob invocation of the call
    pinLog,       \* outcome of every pinFileToIPFS invocation of the call
    delays,       \* every setTimeout delay requested by retry(), in order
    result,       \* what uploadContent returned or threw
    addr,         \* argument of retrieveContent
    variant,      \* which retrieveContent runs: "new" or "old"
    serving,      \* the gateways that serve the uploaded bytes during the call
    fetchLog,     \* gateways fetched by the retrieveContent call, in order, with
                  \* the address in the URL and what each answered
    retrieved,    \* what retrieveContent returned or threw
    op,           \* the upload in flight: uploadContent, uploadMedia, or the
                  \* earlier uploadMedia
    verified,     \* what verifyContent returned
    prior,        \* the record and the result of the caller's previous
                  \* uploadContent, when the caller uploads a record again
    calls,        \* the local state of every uploadContent call of a caller
                  \* that has several calls in flight on one manager
    \* TalesRegistry
    taleCount,    \* taleCount
    tales,        \* tales[1..taleCount]
    page,         \* the getTalesByAuthor call made on the tales as they are,
                  \* and what it returned
    hasAppreciated,   \* hasAppreciated, as the set of the pairs <<account, id>>
                      \* mapped to true
    rewardManager,    \* rewardManager
    receipt,          \* the last transaction sent to TalesRegistry
    \* TalesUserRegistry
    isSubnameClaimed,   \* isSubnameClaimed, as the set of the subnames mapped to true
    userToSubname,      \* userToSubname
    tx                  \* the last transaction sent to TalesUserRegistry

callVars == <<pc, content, doc, i, lastError, storeLog, pinLog, delays,
              result, addr, variant, serving, fetchLog, retrieved, op,
              verified, prior>>
managerVars == <<callVars, calls>>
registryVars == <<taleCount, tales, page, hasAppreciated, rewardManager, receipt>>
userRegistryVars == <<isSubnameClaimed, userToSubname, tx>>
chainVars == <<registryVars, userRegistryVars>>

vars == <<managerVars, chainVars>>

----------------------------------------------------------------------------
(* Program constants *)

maxRetries == 3
maxContentSize == 100000
retryDelay == 1000
CompressThreshold == 1000

(* Bounds of the model *)

\* text lengths are taken within LenSlack of each size the code compares with
LenSlack == 1

----------------------------------------------------------------------------
(* Strings and buffers *)

\* "a": an ASCII character; "e'": a two-byte character; "LS": an unpaired
\* UTF-16 surrogate (one code unit); "FFFD": U+FFFD REPLACEMENT CHARACTER.
Chars == {"a", "e'", "LS", "FFFD"}

RECURSIVE RunsLength(_)
RunsLength(runs) ==
    IF runs = <<>> THEN 0 ELSE Head(runs).n + RunsLength(Tail(runs))

\* adjacent runs of the same character are one run
RECURSIVE Norm(_)
Norm(runs) ==
    IF Len(runs) <= 1 THEN runs
    ELSE LET rest == Norm(Tail(runs))
         IN  IF Head(runs).c = Head(rest).c
             THEN <<[c |-> Head(runs).c, n |-> Head(runs).n + Head(rest).n]>>
                  \o Tail(rest)
             ELSE <<Head(runs)>> \o rest

Undefined == [k |-> "undef", enc |-> "plain", runs |-> <<>>]
Str(runs) == [k |-> "str", enc |-> "plain", runs |-> runs]

\* String.prototype.length: UTF-16 code units
TextLength(text) == RunsLength(text.runs)

\* the UTF-8 encoder writes an unpaired surrogate as U+FFFD
Utf8Unit(c) == IF c = "LS" THEN "FFFD" ELSE c

\* Buffer.from(string): the UTF-8 bytes of the string
BufferFrom(text) ==
    [fmt |-> "raw",
     runs |-> Norm([j \in 1..Len(text.runs) |->
                      [c |-> Utf8Unit(text.runs[j].c), n |-> text.runs[j].n]])]

\* zlib.gzip: a gzip member holding the bytes
gzip(buf) == [fmt |-> "gzip", runs |-> buf.runs]

\* Buffer.prototype.toString('base64')
ToBase64(buf) == [k |-> "str", enc |-> "b64gzip", runs |-> buf.runs]

\* Buffer.from(string, 'base64'): lenient; a string that is not the base64 of a
\* gzip member decodes to bytes without the gzip header
BufferFromBase64(text) ==
    IF text.enc = "b64gzip" THEN [fmt |-> "gzip", runs |-> text.runs]
    ELSE [fmt |-> "junk", runs |-> <<>>]

\* zlib.gunzip: throws 'incorrect header check' on anything but a gzip member
gunzipOk(buf) == buf.fmt = "gzip"
gunzip(buf) == [fmt |-> "raw", runs |-> buf.runs]

\* Buffer.prototype.toString(): UTF-8 decoding
BufferToString(buf) == Str(buf.runs)

----------------------------------------------------------------------------
(* Records *)

NoMeta == [k |-> "undef", compressed |-> "absent", note |-> "absent"]
Meta(c, n) == [k |-> "obj", compressed |-> c, note |-> n]

Num(n) == [k |-> "num", n |-> n]
NoTs == [k |-> "undef", n |-> 0]

NoContent ==
    [text |-> Undefined, media |-> "undef", timestamp |-> NoTs,
     tags |-> "undef", metadata |-> NoMeta]

\* lengths around the sizes the code compares with
Lengths ==
    {1} \cup ((CompressThreshold - LenSlack)..(CompressThreshold + LenSlack))
        \cup ((maxContentSize - LenSlack)..(maxContentSize + LenSlack))

Texts ==
    {Undefined, Str(<<>>)}
      \cup {Str(<<[c |-> "a", n |-> l]>>) : l \in Lengths}
      \cup {Str(<<[c |-> "a", n |-> 1], [c |-> "LS", n |-> 1]>>),
            Str(<<[c |-> "a", n |-> CompressThreshold], [c |-> "LS", n |-> 1]>>),
            Str(<<[c |-> "e'", n |-> CompressThreshold + 1]>>)}

\* undefined, 0, -1, 1, NaN, Infinity, "1"
Timestamps ==
    {NoTs, Num(0), Num(-1), Num(1), [k |-> "nan", n |-> 0],
     [k |-> "inf", n |-> 0], [k |-> "str", n |-> 1]}

\* undefined, an array, a non-empty string, an empty string
Medias == {"undef", "arr", "str", "falsy"}
Tags == {"undef", "arr", "str"}

Metadatas ==
    {NoMeta, Meta("absent", "absent"), Meta("true", "absent"),
     Meta("false", "x"), Meta("absent", "x")}

\* how many of media, tags, timestamp differ from the plain record's
\* (no media, no tags, timestamp 1)
Deviations(c) ==
    (IF c.media = "undef" THEN 0 ELSE 1) + (IF c.tags = "undef" THEN 0 ELSE 1)
      + (IF c.timestamp = Num(1) THEN 0 ELSE 1)

\* the records uploadContent is called with: every text with every metadata
\* and with at most one unusual value among media, tags and timestamp
Contents ==
    {c \in [text : Texts, media : Medias, timestamp : Timestamps, tags : Tags,
            metadata : Metadatas] :
        Deviations(c) <= 1}

----------------------------------------------------------------------------
(* Errors *)

NoError == [kind |-> "none", src |-> "", n |-> 0]
\* an Error instance
Error(msg) == [kind |-> "Error", src |-> msg, n |-> 0]
\* what the n-th invocation of a dependency throws: an Error, a truthy value
\* that is no Error (a string, a plain object), or undefined
Thrown(kind, dep, n) == [kind |-> kind, src |-> dep, n |-> n]
ThrowKinds == {"Error", "nonError", "undefined"}

ValidationMessages ==
    {"Content text is required", "Content text exceeds maximum size",
     "Media must be an array of IPFS hashes", "Tags must be an array of strings",
     "Valid timestamp is required"}

----------------------------------------------------------------------------
(* ContentManager: pure parts *)

TruthyText(text) == text.k = "str" /\ TextLength(text) > 0
TruthyList(v) == v \in {"arr", "str"}
IsArray(v) == v = "arr"
TruthyTs(ts) == \/ ts.k = "num" /\ ts.n # 0
                \/ ts.k = "inf"
                \/ ts.k = "str"
TypeofNumber(ts) == ts.k \in {"num", "nan", "inf"}

\* a size test that also rejects a text of exactly maxContentSize
TooLargeGe(text) == TextLength(text) >= maxContentSize

\* validateContent: content.text.length > this.maxContentSize
TooLarge(text) == TextLength(text) > maxContentSize

\* the message validateContent throws, or "ok"
validateContent(c) ==
    IF ~TruthyText(c.text) THEN "Content text is required"
    ELSE IF TooLarge(c.text)
         THEN "Content text exceeds maximum size"
    ELSE IF TruthyList(c.media) /\ ~IsArray(c.media)
         THEN "Media must be an array of IPFS hashes"
    ELSE IF TruthyList(c.tags) /\ ~IsArray(c.tags)
         THEN "Tags must be an array of strings"
    ELSE IF ~TruthyTs(c.timestamp) \/ ~TypeofNumber(c.timestamp)
         THEN "Valid timestamp is required"
    ELSE "ok"

\* a test that also compresses a text of exactly 1000
NeedsCompressionGe(c) == TextLength(c.text) >= CompressThreshold

\* compressContent: content.text.length > 1000
NeedsCompression(c) == TextLength(c.text) > CompressThreshold

\* a compressContent that encodes the text and forgets the flag
compressContentNoFlag(c) ==
    IF NeedsCompression(c)
    THEN [c EXCEPT !.text = ToBase64(gzip(BufferFrom(c.text)))]
    ELSE c

compressContent(c) ==
    IF NeedsCompression(c)
    THEN [c EXCEPT !.text = ToBase64(gzip(BufferFrom(c.text))),
                   !.metadata = Meta("true", c.metadata.note)]
    ELSE c

\* JSON.stringify followed by JSON.parse: a key whose value is undefined is
\* left out (and stays absent), NaN and Infinity are written as null
JSONstringify(c) ==
    [c EXCEPT !.timestamp =
        IF c.timestamp.k \in {"nan", "inf"} THEN [k |-> "null", n |-> 0]
        ELSE c.timestamp]

\* the files uploadMedia is called with: no byte, one byte, and more bytes
\* than the size from which uploadContent compresses a text
Files ==
    {[fmt |-> "raw", runs |-> <<>>],
     [fmt |-> "raw", runs |-> <<[c |-> "a", n |-> 1]>>],
     [fmt |-> "raw", runs |-> <<[c |-> "a", n |-> CompressThreshold + 1]>>]}

\* new Blob([new Uint8Array(file).buffer], { type: mediaType }), and the
\* new Blob([file], { type: mediaType }) of the earlier uploadMedia: the
\* bytes of the file
MediaBlob(file) ==
    [NoContent EXCEPT !.text = [k |-> "bytes", enc |-> "plain",
                                runs |-> file.runs]]

\* content addresses: the store's address of some bytes is derived from the
\* bytes; the pin service gives its own address to the same bytes; prefix
\* counts the leading "ipfs://"
NoAddr == [prefix |-> 0, svc |-> "none", doc |-> NoContent]
\* nftstorage.storeBlob(blob)
storeBlob(d) == [prefix |-> 0, svc |-> "nft.storage", doc |-> d]
\* pinFileToIPFS(content, name): result.IpfsHash
pinFileToIPFS(d) == [prefix |-> 0, svc |-> "pinata", doc |-> d]
\* result.IpfsHash: the pin service answers with a hash of its own choosing
\* for the content (it is not the store's, and it need not be the same on
\* every call)
PinResults(d) ==
    {pinFileToIPFS(d), [pinFileToIPFS(d) EXCEPT !.svc = "pinata.cidv1"]}
\* `ipfs://${cid}`
IpfsUri(cid) == [cid EXCEPT !.prefix = cid.prefix + 1]
\* result.startsWith('ipfs://')
StartsWithIpfs(a) == a.prefix > 0
\* cid.replace('ipfs://', ''): the first occurrence only
StripIpfs(a) == [a EXCEPT !.prefix = IF a.prefix > 0 THEN a.prefix - 1 ELSE 0]

\* a retry() that also waits after its last failed attempt
RetryMayContinueAlways(j) == j < maxRetries

\* retry(): another attempt follows a failed attempt i
RetryMayContinue(j) == j < maxRetries - 1

\* a retry() that waits the same delay before every attempt
BackoffDelayFlat(j) == retryDelay

\* retry(): the delay requested after failed attempt i
BackoffDelay(j) == retryDelay * (2 ^ j)

\* retry(): throw lastError || new Error('Operation failed after retries')
RetryThrow(e) ==
    IF e.kind = "undefined" THEN Error("Operation failed after retries") ELSE e

\* uploadContent: throw error instanceof Error ? error : new Error(...)
UploadCatch(e) ==
    IF e.kind = "Error" THEN e ELSE Error("Unknown error occurred")

\* uploadMedia: throw error instanceof Error ? error : new Error(...)
MediaCatch(e) ==
    IF e.kind = "Error" THEN e ELSE Error("Failed to upload media")

\* the store call and the pin call go through retry(); the earlier
\* uploadMedia awaits each of them once
Retries(o) == o # "oldMedia"

\* what the upload throws when its store or pin step threw e for good; the
\* earlier uploadMedia rethrows what it caught
Surfaced(o, e) ==
    IF o = "content" THEN UploadCatch(RetryThrow(e))
    ELSE IF o = "media" THEN MediaCatch(RetryThrow(e))
    ELSE e

\* an upload that returns the address the pin service answered
ReturnedCidOfPin(cid, pinned) == pinned

\* the address the upload returns is the one the store answered (cid), not
\* the one the awaited pin call answered
ReturnedCid(cid, pinned) == cid

\* return `ipfs://${cid}`; the earlier uploadMedia has return cid
UploadReturn(o, cid) == IF o = "oldMedia" THEN cid ELSE IpfsUri(cid)

NoResult == [status |-> "none", value |-> NoAddr, error |-> NoError]
Returned(a) == [status |-> "ok", value |-> a, error |-> NoError]
Threw(e) == [status |-> "err", value |-> NoAddr, error |-> e]

NoRetrieved == [status |-> "none", content |-> NoContent, error |-> NoError]

NoPrior == [content |-> NoContent, result |-> NoResult, storeLog |-> <<>>,
            pinLog |-> <<>>]

----------------------------------------------------------------------------
(* Several uploadContent calls in flight on one manager *)

CallIds == {1, 2}

\* the local variables of one uploadContent call and of the retry() it runs;
\* the manager's own fields (nftstorage, maxRetries, maxContentSize,
\* retryDelay) are assigned in the constructor only
NoCall ==
    [pc |-> "idle", content |-> NoContent, doc |-> NoContent, i |-> 0,
     lastError |-> NoError, storeLog |-> <<>>, pinLog |-> <<>>,
     delays |-> <<>>, result |-> NoResult]

----------------------------------------------------------------------------
(* TalesRegistry (src/contracts/TalesRegistry.sol) *)

\* the accounts that send transactions to the contracts; "owner" deployed them
Accounts == {"owner", "alice", "bob"}
Authors == {"alice", "bob"}

\* the content hashes tales are created with
Hashes == {"QmTestHash123", "QmOther"}

\* batchCreateTales: require(length > 0 && length <= 20)
BatchCreateLimit == 20
\* batchAppreciateTales: require(length > 0 && length <= 50)
BatchAppreciateLimit == 50

\* tales are created while taleCount is below MaxTales
MaxTales == 3
\* getTalesByAuthor is called with _count up to MaxCount
MaxCount == 2
\* the batches sent have up to MaxBatch entries, or one more than the limit
MaxBatch == 2

\* The uint32 fields (parentId, appreciationCount, replyCount) hold values
\* up to MaxTales and to the number of accounts here, far below 2^32: the
\* conversion uint32(_parentId), the unchecked increments and the checked
\* increment of replyCount all give the mathematical value.

\* the Tale written by createTale, batchCreateTales (parent 0) and createReply
NewTale(author, contentHash, parentId) ==
    [author |-> author, contentHash |-> contentHash, parentId |-> parentId,
     appreciationCount |-> 0, retellCount |-> 0, replyCount |-> 0]

NoPage == [author |-> "none", start |-> 0, count |-> 0, result |-> <<>>]

\* address(0)
ZeroAddress == "0x0"

\* the last transaction sent to TalesRegistry: the function, whether it
\* reverted, and the tale ids it returned
NoReceipt == [fn |-> "none", reverted |-> FALSE, ids |-> <<>>]
Receipt(fn, ids) == [fn |-> fn, reverted |-> FALSE, ids |-> ids]
Reverted(fn) == [fn |-> fn, reverted |-> TRUE, ids |-> <<>>]

RegistryInit ==
    /\ taleCount = 0
    /\ tales = <<>>
    /\ page = NoPage
    /\ hasAppreciated = {}
    /\ rewardManager = ZeroAddress
    /\ receipt = NoReceipt

\* a counter that stays where it is once the first tale exists
NextIdReused(n) == IF n = 0 THEN 1 ELSE n

\* unchecked { taleCount++; }
NextId(n) == n + 1

\* tales[id] = t
Stored(ts, id, t) ==
    IF id <= Len(ts) THEN [ts EXCEPT ![id] = t] ELSE Append(ts, t)

\* createTale(_contentHash) sent by sender
createTale(sender, contentHash) ==
    /\ taleCount < MaxTales
    /\ taleCount' = NextId(taleCount)
    /\ tales' = Stored(tales, NextId(taleCount), NewTale(sender, contentHash, 0))
    /\ receipt' = Receipt("createTale", <<NextId(taleCount)>>)
    /\ page' = NoPage
    /\ UNCHANGED <<hasAppreciated, rewardManager, managerVars, userRegistryVars>>

\* a createReply that leaves the reply count of the parent as it is
ReplyCountAfterSame(c) == c

\* tales[_parentId].replyCount++
ReplyCountAfter(c) == c + 1

\* require(_parentId > 0 && _parentId <= taleCount, "Invalid parent tale ID")
ParentExists(parentId, n) == parentId > 0 /\ parentId <= n

\* createReply(_parentId, _contentHash) sent by sender; the transaction
\* reverts, and changes nothing, for a parent that is no tale
createReply(sender, parentId, contentHash) ==
    /\ taleCount < MaxTales
    /\ IF ParentExists(parentId, taleCount)
       THEN /\ taleCount' = NextId(taleCount)
            /\ tales' = [Stored(tales, NextId(taleCount),
                                NewTale(sender, contentHash, parentId))
                           EXCEPT ![parentId].replyCount = ReplyCountAfter(@)]
            /\ receipt' = Receipt("createReply", <<NextId(taleCount)>>)
       ELSE /\ UNCHANGED <<taleCount, tales>>
            /\ receipt' = Reverted("createReply")
    /\ page' = NoPage
    /\ UNCHANGED <<hasAppreciated, rewardManager, managerVars, userRegistryVars>>

\* the loop of batchCreateTales from entry k of hashes on: n is taleCount,
\* ids is newTaleIds as filled so far
RECURSIVE BatchCreated(_, _, _, _, _, _)
BatchCreated(ts, n, sender, hashes, k, ids) ==
    IF k > Len(hashes) THEN [tales |-> ts, taleCount |-> n, ids |-> ids]
    ELSE BatchCreated(Stored(ts, NextId(n), NewTale(sender, hashes[k], 0)),
                      NextId(n), sender, hashes, k + 1, Append(ids, NextId(n)))

\* batchCreateTales(_contentHashes) sent by sender
batchCreateTales(sender, hashes) ==
    /\ Len(hashes) > BatchCreateLimit \/ taleCount + Len(hashes) <= MaxTales
    /\ IF Len(hashes) > 0 /\ Len(hashes) <= BatchCreateLimit
       THEN LET done == BatchCreated(tales, taleCount, sender, hashes, 1, <<>>)
            IN  /\ taleCount' = done.taleCount
                /\ tales' = done.tales
                /\ receipt' = Receipt("batchCreateTales", done.ids)
       ELSE /\ UNCHANGED <<taleCount, tales>>
            /\ receipt' = Reverted("batchCreateTales")
    /\ page' = NoPage
    /\ UNCHANGED <<hasAppreciated, rewardManager, managerVars, userRegistryVars>>

\* an appreciation that does not look at hasAppreciated
MayAppreciateAgain(has, sender, id, n) == id > 0 /\ id <= n

\* require(_taleId > 0 && _taleId <= taleCount) and
\* require(!hasAppreciated[msg.sender][_taleId])
MayAppreciate(has, sender, id, n) ==
    id > 0 /\ id <= n /\ <<sender, id>> \notin has

\* the reward manager is called when one is set; rewardOk tells whether its
\* afterAppreciate returns (or reverts, and the transaction with it)
RewardCallPasses(rewardOk) == rewardManager = ZeroAddress \/ rewardOk

\* the answers of afterAppreciate that can be told apart
RewardAnswers == IF rewardManager = ZeroAddress THEN {TRUE} ELSE BOOLEAN

\* appreciateTale(_taleId) sent by sender
appreciateTale(sender, id, rewardOk) ==
    /\ IF MayAppreciate(hasAppreciated, sender, id, taleCount)
          /\ RewardCallPasses(rewardOk)
       THEN /\ hasAppreciated' = hasAppreciated \cup {<<sender, id>>}
            /\ tales' = [tales EXCEPT
                           ![id].appreciationCount = @ + 1]
            /\ receipt' = Receipt("appreciateTale", <<>>)
       ELSE /\ UNCHANGED <<hasAppreciated, tales>>
            /\ receipt' = Reverted("appreciateTale")
    /\ UNCHANGED <<taleCount, page, rewardManager, managerVars, userRegistryVars>>

\* a batchAppreciateTales that passes over the ids it cannot appreciate
OnBadIdSkip == "skip"

\* batchAppreciateTales: a failed require reverts the transaction
OnBadId == "revert"

\* the loop of batchAppreciateTales from entry k of ids on
RECURSIVE BatchAppreciated(_, _, _, _, _, _)
BatchAppreciated(has, ts, n, sender, ids, k) ==
    IF k > Len(ids) THEN [ok |-> TRUE, has |-> has, tales |-> ts]
    ELSE IF MayAppreciate(has, sender, ids[k], n)
    THEN BatchAppreciated(has \cup {<<sender, ids[k]>>},
             [ts EXCEPT ![ids[k]].appreciationCount = @ + 1],
             n, sender, ids, k + 1)
    ELSE IF OnBadId = "revert"
    THEN [ok |-> FALSE, has |-> has, tales |-> ts]
    ELSE BatchAppreciated(has, ts, n, sender, ids, k + 1)

\* batchAppreciateTales(_taleIds) sent by sender
batchAppreciateTales(sender, ids, rewardOk) ==
    /\ LET done == BatchAppreciated(hasAppreciated, tales, taleCount, sender,
                                    ids, 1)
       IN  IF /\ Len(ids) > 0 /\ Len(ids) <= BatchAppreciateLimit
              /\ done.ok
              /\ RewardCallPasses(rewardOk)
           THEN /\ hasAppreciated' = done.has
                /\ tales' = done.tales
                /\ receipt' = Receipt("batchAppreciateTales", <<>>)
           ELSE /\ UNCHANGED <<hasAppreciated, tales>>
                /\ receipt' = Reverted("batchAppreciateTales")
    /\ UNCHANGED <<taleCount, page, rewardManager, managerVars, userRegistryVars>>

\* setRewardManager(_rewardManager) sent by sender: onlyOwner
setRewardManager(sender, manager) ==
    /\ IF sender = "owner"
       THEN /\ rewardManager' = manager
            /\ receipt' = Receipt("setRewardManager", <<>>)
       ELSE /\ UNCHANGED rewardManager
            /\ receipt' = Reverted("setRewardManager")
    /\ UNCHANGED <<taleCount, tales, page, hasAppreciated, managerVars,
                   userRegistryVars>>

\* the loop of getTalesByAuthor from index j on, res being the ids written to
\* result so far: for (i = _start + 1; i <= taleCount && resultIndex < _count;)
RECURSIVE AuthorScan(_, _, _, _, _, _)
AuthorScan(ts, n, author, count, j, res) ==
    IF j <= n /\ Len(res) < count
    THEN AuthorScan(ts, n, author, count, j + 1,
                    IF ts[j].author = author THEN Append(res, j) ELSE res)
    ELSE res

\* getTalesByAuthor(_author, _start, _count): new uint256[](_count), filled
\* from the front by the loop, the rest left 0
TalesByAuthor(ts, n, author, start, count) ==
    LET found == AuthorScan(ts, n, author, count, start + 1, <<>>)
    IN  found \o [k \in 1..(count - Len(found)) |-> 0]

\* a call of the view getTalesByAuthor
getTalesByAuthor(author, start, count) ==
    /\ page' = [author |-> author, start |-> start, count |-> count,
                result |-> TalesByAuthor(tales, taleCount, author, start, count)]
    /\ UNCHANGED <<taleCount, tales, hasAppreciated, rewardManager, receipt,
                   managerVars, userRegistryVars>>

\* batches of n entries that are all v
Same(n, v) == [j \in 1..n |-> v]

\* the sequences of up to MaxBatch entries of S
Batches(S) == UNION {[1..n -> S] : n \in 0..MaxBatch}

\* tales created and listed by author
NextRegistry ==
    \/ \E a \in Authors : createTale(a, "QmTestHash123")
    \/ \E a \in Authors, parent \in 0..MaxTales :
          createReply(a, parent, "QmTestHash123")
    \/ \E a \in Authors, n \in {0, 1, 2, BatchCreateLimit + 1} :
          batchCreateTales(a, Same(n, "QmTestHash123"))
    \/ \E a \in Authors, start \in 0..MaxTales, count \in 0..MaxCount :
          getTalesByAuthor(a, start, count)

\* the hash lists sent to batchCreateTales
HashesSent == Batches(Hashes) \cup {Same(BatchCreateLimit + 1, "QmOther")}

\* tales and replies created with any of the hashes
NextTales ==
    \/ \E a \in Authors, h \in Hashes : createTale(a, h)
    \/ \E a \in Authors, parent \in 0..MaxTales, h \in Hashes :
          createReply(a, parent, h)
    \/ \E a \in Authors, hs \in HashesSent : batchCreateTales(a, hs)

\* the batches of ids sent to batchAppreciateTales: none, one or two ids,
\* in either order, an id twice, 0, an id above taleCount after one that can
\* be appreciated, and one id more than the limit
BatchesSent ==
    {<<>>, <<0>>, <<1>>, <<2>>, <<1, 2>>, <<2, 1>>, <<1, 1>>,
     <<2, MaxTales>>, <<1, MaxTales + 1>>, Same(BatchAppreciateLimit + 1, 1)}

\* tales created by the owner and appreciated by the authors, with or
\* without a reward manager
NextAppreciate ==
    \/ createTale("owner", "QmTestHash123")
    \/ \E a \in Authors, id \in 0..MaxTales, ok \in RewardAnswers :
          appreciateTale(a, id, ok)
    \/ \E a \in Authors, ok \in RewardAnswers, ids \in BatchesSent :
          batchAppreciateTales(a, ids, ok)
    \/ \E a \in {"owner", "alice"}, m \in {ZeroAddress, "rewardManager"} :
          setRewardManager(a, m)

----------------------------------------------------------------------------
(* TalesUserRegistry (src/contracts/TalesUserRegistry.sol) *)

\* _isValidSubname: if (b.length > 20) return false
SubnameMaxLength == 20
\* claimSubname: require(bytes(_subname).length >= 3)
SubnameMinLength == 3

Digits == {"0", "1", "2", "3", "4", "5", "6", "7", "8", "9"}
LowerCase ==
    {"a", "b", "c", "d", "e", "f", "g", "h", "i", "j", "k", "l", "m", "n",
     "o", "p", "q", "r", "s", "t", "u", "v", "w", "x", "y", "z"}

\* a subname is the sequence of its characters; "" is <<>>
EmptySubname == <<>>

\* the subnames sent: "ab", "Abc", "abc", "k0fi" and "a" 21 times
Subnames ==
    {<<"a", "b">>, <<"A", "b", "c">>, <<"a", "b", "c">>,
     <<"k", "0", "f", "i">>, [j \in 1..(SubnameMaxLength + 1) |-> "a"]}

\* _isValidSubname: at most 20 characters, each of 0-9 or a-z
isValidSubname(b) ==
    IF Len(b) > SubnameMaxLength THEN FALSE
    ELSE \A j \in 1..Len(b) : b[j] \in Digits \cup LowerCase

\* address(0)
NoAccount == "0x0"

NoTx == [fn |-> "none", sender |-> NoAccount, subname |-> EmptySubname,
         reverted |-> FALSE]

UserRegistryInit ==
    /\ isSubnameClaimed = {}
    /\ userToSubname = [a \in Accounts |-> EmptySubname]
    /\ tx = NoTx

\* claimSubname(_subname) sent by sender; ensOk: the calls to ENS_REGISTRY
\* and to the resolver go through (when one reverts, so does the transaction)
claimSubname(sender, subname, ensOk) ==
    LET done == /\ subname \notin isSubnameClaimed
                /\ isValidSubname(subname)
                /\ Len(subname) >= SubnameMinLength
                /\ ensOk
    IN  /\ tx' = [fn |-> "claimSubname", sender |-> sender,
                  subname |-> subname, reverted |-> ~done]
        /\ IF done
           THEN /\ isSubnameClaimed' = isSubnameClaimed \cup {subname}
                /\ userToSubname' = [userToSubname EXCEPT ![sender] = subname]
           ELSE UNCHANGED <<isSubnameClaimed, userToSubname>>
        /\ UNCHANGED <<managerVars, registryVars>>

\* adminReclaimSubname(_subname, _newOwner) sent by sender (onlyOwner);
\* ensOk: ENS_REGISTRY.setOwner(subnode, _newOwner) goes through
adminReclaimSubname(sender, subname, ensOk) ==
    LET done == sender = "owner" /\ ensOk
    IN  /\ tx' = [fn |-> "adminReclaimSubname", sender |-> sender,
                  subname |-> subname, reverted |-> ~done]
        /\ IF done
           THEN /\ isSubnameClaimed' = isSubnameClaimed \ {subname}
                /\ UNCHANGED userToSubname
           ELSE UNCHANGED <<isSubnameClaimed, userToSubname>>
        /\ UNCHANGED <<managerVars, registryVars>>

NextUserRegistry ==
    \/ \E a \in Accounts, s \in Subnames, ensOk \in BOOLEAN :
          claimSubname(a, s, ensOk)
    \/ \E a \in Accounts, s \in Subnames, ensOk \in BOOLEAN :
          adminReclaimSubname(a, s, ensOk)

----------------------------------------------------------------------------
Init ==
    /\ pc = "idle"
    /\ content = NoContent
    /\ doc = NoContent
    /\ i = 0
    /\ lastError = NoError
    /\ storeLog = <<>>
    /\ pinLog = <<>>
    /\ delays = <<>>
    /\ result = NoResult
    /\ addr = NoAddr
    /\ variant = "none"
    /\ serving = {}
    /\ fetchLog = <<>>
    /\ retrieved = NoRetrieved
    /\ op = "none"
    /\ verified = "none"
    /\ prior = NoPrior
    /\ calls = [k \in CallIds |-> NoCall]
    /\ RegistryInit
    /\ UserRegistryInit

\* a compressContent that writes the encoded text and the flag into the
\* record it was given
CallerRecordInPlace(c, compressed) == compressed

\* compressContent, lines 59-66: the compressed record is a new object made
\* with spreads of the record and of its metadata; the caller's record c is
\* not assigned to
CallerRecord(c, compressed) == c

\* uploadContent up to its first network call: validateContent,
\* compressContent, JSON.stringify
UploadCall(c) ==
    /\ pc = "idle"
    /\ content' = IF validateContent(c) # "ok"
                  THEN c
                  ELSE CallerRecord(c, compressContent(c))
    /\ IF validateContent(c) # "ok"
       THEN /\ pc' = "failed"
            /\ result' = Threw(UploadCatch(Error(validateContent(c))))
            /\ doc' = doc
       ELSE /\ pc' = "store"
            /\ result' = result
            /\ doc' = JSONstringify(compressContent(c))
    /\ i' = 0
    /\ lastError' = NoError
    /\ op' = "content"
    /\ UNCHANGED <<storeLog, pinLog, delays, addr, variant, serving, fetchLog,
                   retrieved, verified, prior, calls,
                   chainVars>>

\* uploadMedia (o = "media") and the earlier uploadMedia (o = "oldMedia") up
\* to the first network call: the blob is made of the bytes of the file
UploadMediaCall(file, o) ==
    /\ pc = "idle"
    /\ content' = MediaBlob(file)
    /\ doc' = MediaBlob(file)
    /\ pc' = "store"
    /\ i' = 0
    /\ lastError' = NoError
    /\ op' = o
    /\ UNCHANGED <<storeLog, pinLog, delays, result, addr, variant, serving,
                   fetchLog, retrieved, verified, prior, calls,
                   chainVars>>

\* a retry() that goes on from the attempt index the previous step reached
FirstAttemptShared(j) == j

\* retry(), line 74: every call of retry() starts its own loop at i = 0,
\* whatever index j the loop of the previous step ended with
FirstAttempt(j) == 0

\* a retry() whose loop runs one attempt too many
LoopContinuesOneMore(j) == j <= maxRetries

\* retry(): the loop runs attempt j
LoopContinues(j) == j < maxRetries

\* retry(), lines 76-84: what an attempt that returned res throws, if anything
\* (valid is the answer of verifyIPFS, asked only for an ipfs:// result)
VerifyThrows(res, valid) == StartsWithIpfs(res) /\ ~valid

\* an uploadContent that goes on to the pin step when the store step threw
OnStoreFailureSwallowed == "pin"
\* an uploadContent that returns the address when the pin step threw
OnPinFailureSwallowed == "uploaded"

\* uploadContent: a throw of retry(storeBlob) leaves the try block
OnStoreFailure == "failed"
\* uploadContent: a throw of retry(pinFileToIPFS) leaves the try block
OnPinFailure == "failed"

\* one attempt of retry(() => nftstorage.storeBlob(blob))
StoreAttempt ==
    /\ pc = "store"
    /\ \E o \in {"ok"} \cup ThrowKinds :
       \E valid \in IF o = "ok" /\ Retries(op) /\ StartsWithIpfs(storeBlob(doc))
                    THEN BOOLEAN ELSE {TRUE} :
         LET n == Len(storeLog) + 1
             thrown == IF o # "ok" THEN Thrown(o, "store", n)
                       ELSE IF Retries(op) /\ VerifyThrows(storeBlob(doc), valid)
                            THEN Error("Content verification failed")
                       ELSE NoError
         IN  /\ storeLog' = Append(storeLog, IF o = "ok" THEN "ok" ELSE "fail")
             /\ IF thrown = NoError
                THEN /\ pc' = "pin"
                     /\ i' = FirstAttempt(i)
                     /\ lastError' = NoError
                     /\ UNCHANGED <<delays, result>>
                ELSE /\ lastError' = thrown
                     /\ IF Retries(op) /\ RetryMayContinue(i)
                        THEN /\ delays' = Append(delays, BackoffDelay(i))
                             /\ pc' = "storeWait"
                             /\ UNCHANGED <<i, result>>
                        ELSE IF Retries(op) /\ LoopContinues(i + 1)
                        THEN /\ pc' = "store"
                             /\ i' = i + 1
                             /\ UNCHANGED <<delays, result>>
                        ELSE /\ pc' = OnStoreFailure
                             /\ result' = IF OnStoreFailure = "failed"
                                          THEN Threw(Surfaced(op, thrown))
                                          ELSE result
                             /\ i' = 0
                             /\ UNCHANGED delays
    /\ UNCHANGED <<content, doc, pinLog, addr, variant, serving, fetchLog,
                   retrieved, op, verified, prior, calls,
                   chainVars>>

\* the backoff timer of retry(storeBlob) fires
StoreBackoff ==
    /\ pc = "storeWait"
    /\ IF LoopContinues(i + 1)
       THEN /\ pc' = "store"
            /\ i' = i + 1
            /\ UNCHANGED result
       ELSE /\ pc' = OnStoreFailure
            /\ result' = IF OnStoreFailure = "failed"
                         THEN Threw(Surfaced(op, lastError))
                         ELSE result
            /\ i' = 0
    /\ UNCHANGED <<content, doc, lastError, storeLog, pinLog, delays, addr,
                   variant, serving, fetchLog, retrieved, op, verified, prior,
                   calls,
                   chainVars>>

\* one attempt of retry(() => pinFileToIPFS(compressedContent, name)), which
\* answers one of answers when it succeeds; the upload then returns the
\* address of the store
PinAttemptOf(answers) ==
    /\ pc = "pin"
    /\ \E o \in {"ok"} \cup ThrowKinds :
       \E pinned \in IF o = "ok" THEN answers ELSE {pinFileToIPFS(doc)} :
       \E valid \in IF o = "ok" /\ Retries(op) /\ StartsWithIpfs(pinned)
                    THEN BOOLEAN ELSE {TRUE} :
         LET n == Len(pinLog) + 1
             thrown == IF o # "ok" THEN Thrown(o, "pin", n)
                       ELSE IF Retries(op) /\ VerifyThrows(pinned, valid)
                            THEN Error("Content verification failed")
                       ELSE NoError
         IN  /\ pinLog' = Append(pinLog, IF o = "ok" THEN "ok" ELSE "fail")
             /\ IF thrown = NoError
                THEN /\ pc' = "uploaded"
                     /\ result' = Returned(UploadReturn(op,
                                       ReturnedCid(storeBlob(doc), pinned)))
                     /\ i' = 0
                     /\ lastError' = NoError
                     /\ UNCHANGED delays
                ELSE /\ lastError' = thrown
                     /\ IF Retries(op) /\ RetryMayContinue(i)
                        THEN /\ delays' = Append(delays, BackoffDelay(i))
                             /\ pc' = "pinWait"
                             /\ UNCHANGED <<i, result>>
                        ELSE IF Retries(op) /\ LoopContinues(i + 1)
                        THEN /\ pc' = "pin"
                             /\ i' = i + 1
                             /\ UNCHANGED <<delays, result>>
                        ELSE /\ pc' = OnPinFailure
                             /\ result' = IF OnPinFailure = "failed"
                                          THEN Threw(Surfaced(op, thrown))
                                          ELSE Returned(UploadReturn(op, storeBlob(doc)))
                             /\ i' = 0
                             /\ UNCHANGED delays
    /\ UNCHANGED <<content, doc, storeLog, addr, variant, serving, fetchLog,
                   retrieved, op, verified, prior, calls,
                   chainVars>>

\* an attempt of the pin step against the pin service, which answers the hash
\* of the document
PinAttempt == PinAttemptOf(PinResults(doc))

\* an attempt of the pin step against a service that answers the hash as a
\* content URI: the result of the operation begins with ipfs://, and retry()
\* asks verifyIPFS about it
PinUriAttempt == PinAttemptOf({IpfsUri(h) : h \in PinResults(doc)})

\* the backoff timer of retry(pinFileToIPFS) fires
PinBackoff ==
    /\ pc = "pinWait"
    /\ IF LoopContinues(i + 1)
       THEN /\ pc' = "pin"
            /\ i' = i + 1
            /\ UNCHANGED result
       ELSE /\ pc' = OnPinFailure
            /\ result' = IF OnPinFailure = "failed"
                         THEN Threw(Surfaced(op, lastError))
                         ELSE Returned(UploadReturn(op, storeBlob(doc)))
            /\ i' = 0
    /\ UNCHANGED <<content, doc, lastError, storeLog, pinLog, delays, addr,
                   variant, serving, fetchLog, retrieved, op, verified, prior,
                   calls,
                   chainVars>>

\* the caller uploads the record of the uploadContent call that has just
\* returned once more: a second uploadContent(content) on a manager that
\* kept nothing of the first
UploadAgain ==
    /\ pc = "uploaded"
    /\ op = "content"
    /\ prior = NoPrior
    /\ prior' = [content |-> content, result |-> result,
                 storeLog |-> storeLog, pinLog |-> pinLog]
    /\ IF validateContent(content) # "ok"
       THEN /\ pc' = "failed"
            /\ result' = Threw(UploadCatch(Error(validateContent(content))))
            /\ doc' = doc
       ELSE /\ pc' = "store"
            /\ result' = NoResult
            /\ doc' = JSONstringify(compressContent(content))
    /\ i' = 0
    /\ lastError' = NoError
    /\ storeLog' = <<>>
    /\ pinLog' = <<>>
    /\ delays' = <<>>
    /\ UNCHANGED <<content, addr, variant, serving, fetchLog, retrieved, op,
                   verified, calls,
                   chainVars>>

----------------------------------------------------------------------------
(* Retrieval *)

Range(seq) == {seq[j] : j \in 1..Len(seq)}

\* getContentGateways: the endpoints in priority order
getContentGateways == <<"ipfs.io", "nftstorage.link", "gateway.pinata.cloud">>
\* the gateways list of the earlier retrieveContent
OldGateways == <<"nftstorage.link", "ipfs.io", "gateway.pinata.cloud">>

\* what gateway gw answers for https://<gw>/ipfs/<path>: a gateway that
\* serves, asked for an address of the uploaded bytes, answers ok with those
\* bytes; otherwise the fetch rejects, the response is not ok, or it is ok
\* with a body that response.json() cannot parse
GatewayOutcomes(gw, path) ==
    IF gw \in serving /\ path.prefix = 0
    THEN {"ok"}
    ELSE {"reject", "notok", "badjson"}

\* content.metadata?.compressed
CompressedFlag(c) == c.metadata.k = "obj" /\ c.metadata.compressed = "true"

\* retrieveContent, lines 159-171, on the parsed document c
Decompress(c) ==
    IF CompressedFlag(c)
    THEN IF gunzipOk(BufferFromBase64(c.text))
         THEN [status |-> "ok",
               content |-> [c EXCEPT
                   !.text = BufferToString(gunzip(BufferFromBase64(c.text))),
                   !.metadata = Meta("false", c.metadata.note)],
               error |-> NoError]
         ELSE [status |-> "err", content |-> NoContent,
               error |-> Error("incorrect header check")]
    ELSE [status |-> "ok", content |-> c, error |-> NoError]

\* retrieveContent: throw error instanceof Error ? error : new Error(...)
RetrieveCatch(e) ==
    IF e.kind = "Error" THEN e ELSE Error("Failed to retrieve content")

\* verifyContent with only the test of the text
verifyContentTextOnly(r) ==
    IF r.status = "ok" /\ r.content.text.k = "str" THEN "true" ELSE "false"

\* verifyContent on the outcome r of its retrieveContent call: a throw is
\* caught and gives false; otherwise !!content && typeof content.text ===
\* 'string' && typeof content.timestamp === 'number'
verifyContent(r) ==
    IF /\ r.status = "ok"
       /\ r.content.text.k = "str"
       /\ TypeofNumber(r.content.timestamp)
    THEN "true" ELSE "false"

\* the caller passes the URI uploadContent returned (p = 1) or its bare
\* address (p = 0) to retrieveContent (v = "new"), to the earlier
\* multi-gateway retrieveContent (v = "old") or to verifyContent
\* (v = "verify"), while the gateways of up serve
RetrieveCall(p, v, up) ==
    /\ pc = "uploaded"
    /\ op = "content"
    /\ prior = NoPrior
    /\ addr' = IF p = 1 THEN result.value ELSE StripIpfs(result.value)
    /\ variant' = v
    /\ serving' = up
    /\ pc' = "fetch"
    /\ fetchLog' = <<>>
    /\ storeLog' = <<>>
    /\ pinLog' = <<>>
    /\ delays' = <<>>
    /\ UNCHANGED <<content, doc, i, lastError, result, retrieved, op, verified,
                   prior, calls,
                   chainVars>>

\* what retrieveContent gives when the gateway answered o for the address path
Fetched(o, path) ==
    IF o = "reject"
    THEN [status |-> "err", content |-> NoContent,
          error |-> RetrieveCatch(Thrown("Error", "fetch", 1))]
    ELSE IF o = "notok"
    THEN [status |-> "err", content |-> NoContent,
          error |-> RetrieveCatch(Error("Failed to fetch content"))]
    ELSE IF o = "badjson"
    THEN [status |-> "err", content |-> NoContent,
          error |-> RetrieveCatch(Thrown("Error", "json", 1))]
    ELSE LET r == Decompress(path.doc)
         IN  [r EXCEPT !.error = IF r.status = "err"
                                 THEN RetrieveCatch(r.error)
                                 ELSE r.error]

\* retrieveContent of content-manager.new.ts (and the same method of the
\* class of content-manager.old.ts, which verifyContent calls): one fetch,
\* then decompression; under verifyContent the outcome becomes a boolean
Fetch ==
    /\ pc = "fetch"
    /\ variant \in {"new", "verify"}
    /\ LET path == StripIpfs(addr)
       IN  \E o \in GatewayOutcomes(getContentGateways[1], path) :
             /\ fetchLog' = Append(fetchLog, [gw |-> getContentGateways[1],
                                              path |-> path, res |-> o])
             /\ retrieved' = Fetched(o, path)
             /\ verified' = IF variant = "verify"
                            THEN verifyContent(Fetched(o, path))
                            ELSE verified
             /\ pc' = "retrieveDone"
    /\ UNCHANGED <<content, doc, i, lastError, storeLog, pinLog, delays,
                   result, addr, variant, serving, op, prior, calls,
                   chainVars>>

\* the earlier retrieveContent (content-manager.old.ts): the gateways in
\* turn, the first ok response is returned as parsed; a rejected fetch and
\* a throw of response.json() are caught by the loop, which goes on
OldFetch ==
    /\ pc = "fetch"
    /\ variant = "old"
    /\ LET g == Len(fetchLog) + 1
       IN  \E o \in GatewayOutcomes(OldGateways[g], addr) :
             /\ fetchLog' = Append(fetchLog, [gw |-> OldGateways[g],
                                              path |-> addr, res |-> o])
             /\ IF o = "ok"
                THEN /\ retrieved' = [status |-> "ok", content |-> addr.doc,
                                      error |-> NoError]
                     /\ pc' = "retrieveDone"
                ELSE IF g < Len(OldGateways)
                THEN /\ UNCHANGED retrieved
                     /\ pc' = "fetch"
                ELSE /\ retrieved' =
                          [status |-> "err", content |-> NoContent,
                           error |-> Error("Could not retrieve content from any gateway")]
                     /\ pc' = "retrieveDone"
    /\ UNCHANGED <<content, doc, i, lastError, storeLog, pinLog, delays,
                   result, addr, variant, serving, op, verified, prior,
                   calls,
                   chainVars>>

\* the call is over; the next one starts from a manager that kept nothing
Reset ==
    /\ pc \in {"failed", "uploaded", "retrieveDone"}
    /\ pc' = "idle"
    /\ content' = NoContent
    /\ doc' = NoContent
    /\ i' = 0
    /\ lastError' = NoError
    /\ storeLog' = <<>>
    /\ pinLog' = <<>>
    /\ delays' = <<>>
    /\ result' = NoResult
    /\ addr' = NoAddr
    /\ variant' = "none"
    /\ serving' = {}
    /\ fetchLog' = <<>>
    /\ retrieved' = NoRetrieved
    /\ op' = "none"
    /\ verified' = "none"
    /\ prior' = NoPrior
    /\ UNCHANGED <<calls, chainVars>>

Next ==
    \/ \E c \in Contents : UploadCall(c)
    \/ \E file \in Files, o \in {"media", "oldMedia"} : UploadMediaCall(file, o)
    \/ StoreAttempt
    \/ StoreBackoff
    \/ PinAttempt
    \/ PinBackoff
    \/ \E p \in {0, 1}, v \in {"new", "old", "verify"},
          up \in SUBSET Range(getContentGateways) : RetrieveCall(p, v, up)
    \/ Fetch
    \/ OldFetch
    \/ Reset

Spec == Init /\ [][Next]_vars

\* a caller that uploads a record and then uploads the same record again
TwiceContents == {c \in Contents : Deviations(c) = 0}

NextTwice ==
    \/ \E c \in TwiceContents : UploadCall(c)
    \/ StoreAttempt
    \/ StoreBackoff
    \/ PinAttempt
    \/ PinBackoff
    \/ UploadAgain
    \/ Reset

SpecTwice == Init /\ [][NextTwice]_vars

\* uploadContent with a pin operation whose result is a content URI
NextUri ==
    \/ \E c \in TwiceContents : UploadCall(c)
    \/ StoreAttempt
    \/ StoreBackoff
    \/ PinUriAttempt
    \/ PinBackoff
    \/ Reset

SpecUri == Init /\ [][NextUri]_vars

SpecRegistry == Init /\ [][NextRegistry]_vars

SpecTales == Init /\ [][NextTales]_vars

SpecAppreciate == Init /\ [][NextAppreciate]_vars


SpecUserRegistry == Init /\ [][NextUserRegistry]_vars

----------------------------------------------------------------------------
(* Several uploadContent calls in flight: the steps *)

\* uploadContent(c) up to its first network call
Started(c) ==
    IF validateContent(c) # "ok"
    THEN [NoCall EXCEPT !.pc = "failed", !.content = c,
                        !.result = Threw(UploadCatch(Error(validateContent(c))))]
    ELSE [NoCall EXCEPT !.pc = "store",
                        !.content = CallerRecord(c, compressContent(c)),
                        !.doc = JSONstringify(compressContent(c))]

\* a retry() that keeps its loop index in a field of the manager, where the
\* calls in flight all advance it
LoopIndexShared(own, others) == IF others > own THEN others ELSE own

\* retry(), line 74: i is declared by the loop of the call; the indexes of
\* the other calls in flight (others) are not visible to it
LoopIndex(own, others) == own

\* the call s after an attempt of dep ("store" or "pin") that answered o,
\* while the greatest loop index of the other calls is others
Attempted(s, dep, o, others) ==
    LET j == LoopIndex(s.i, others)
        n == Len(IF dep = "store" THEN s.storeLog ELSE s.pinLog) + 1
        entry == IF o = "ok" THEN "ok" ELSE "fail"
        logged == IF dep = "store"
                  THEN [s EXCEPT !.storeLog = Append(@, entry)]
                  ELSE [s EXCEPT !.pinLog = Append(@, entry)]
    IN  IF o = "ok"
        THEN IF dep = "store"
             THEN [logged EXCEPT !.pc = "pin", !.i = FirstAttempt(j),
                                 !.lastError = NoError]
             ELSE [logged EXCEPT !.pc = "uploaded", !.i = 0,
                                 !.lastError = NoError,
                                 !.result = Returned(IpfsUri(storeBlob(s.doc)))]
        ELSE IF RetryMayContinue(j)
        THEN [logged EXCEPT !.lastError = Thrown(o, dep, n),
                            !.delays = Append(@, BackoffDelay(j)),
                            !.pc = IF dep = "store" THEN "storeWait" ELSE "pinWait"]
        ELSE IF LoopContinues(j + 1)
        THEN [logged EXCEPT !.lastError = Thrown(o, dep, n), !.i = j + 1]
        ELSE [logged EXCEPT !.lastError = Thrown(o, dep, n), !.i = 0,
                            !.pc = "failed",
                            !.result = Threw(Surfaced("content", Thrown(o, dep, n)))]

\* the call s after its backoff timer fired
BackedOff(s, others) ==
    LET j == LoopIndex(s.i, others)
    IN  IF LoopContinues(j + 1)
        THEN [s EXCEPT !.pc = IF s.pc = "storeWait" THEN "store" ELSE "pin",
                       !.i = j + 1]
        ELSE [s EXCEPT !.pc = "failed", !.i = 0,
                       !.result = Threw(Surfaced("content", s.lastError))]

\* the records the concurrent calls upload: a short one, one that is
\* compressed, and one that validateContent rejects
ConcContents ==
    {[text |-> Str(<<[c |-> "a", n |-> l]>>), media |-> "undef",
      timestamp |-> Num(t), tags |-> "undef", metadata |-> NoMeta] :
        <<l, t>> \in {<<1, 1>>, <<CompressThreshold + 1, 1>>, <<1, 0>>}}

\* the greatest loop index among the calls other than k
OthersIndex(k) ==
    CHOOSE m \in 0..maxRetries :
        /\ \A h \in CallIds \ {k} : calls[h].i <= m
        /\ \E h \in CallIds \ {k} : calls[h].i = m

\* call k: uploadContent(c), for a record no other call of the caller uploads
ConcUploadCall(k, c) ==
    /\ calls[k].pc = "idle"
    /\ \A h \in CallIds \ {k} : calls[h].content # c
    /\ calls' = [calls EXCEPT ![k] = Started(c)]
    /\ UNCHANGED <<callVars, chainVars>>

\* call k: one attempt of retry(storeBlob)
ConcStoreAttempt(k) ==
    /\ calls[k].pc = "store"
    /\ \E o \in {"ok"} \cup ThrowKinds :
         calls' = [calls EXCEPT
                     ![k] = Attempted(calls[k], "store", o, OthersIndex(k))]
    /\ UNCHANGED <<callVars, chainVars>>

\* call k: one attempt of retry(pinFileToIPFS)
ConcPinAttempt(k) ==
    /\ calls[k].pc = "pin"
    /\ \E o \in {"ok"} \cup ThrowKinds :
         calls' = [calls EXCEPT
                     ![k] = Attempted(calls[k], "pin", o, OthersIndex(k))]
    /\ UNCHANGED <<callVars, chainVars>>

\* call k: its backoff timer fires
ConcBackoff(k) ==
    /\ calls[k].pc \in {"storeWait", "pinWait"}
    /\ calls' = [calls EXCEPT ![k] = BackedOff(calls[k], OthersIndex(k))]
    /\ UNCHANGED <<callVars, chainVars>>

\* the caller's calls have all returned or thrown; the caller starts over
ConcReset ==
    /\ \A k \in CallIds : calls[k].pc \in {"uploaded", "failed"}
    /\ calls' = [k \in CallIds |-> NoCall]
    /\ UNCHANGED <<callVars, chainVars>>

NextConcurrent ==
    \/ \E k \in CallIds, c \in ConcContents : ConcUploadCall(k, c)
    \/ \E k \in CallIds : ConcStoreAttempt(k)
    \/ \E k \in CallIds : ConcPinAttempt(k)
    \/ \E k \in CallIds : ConcBackoff(k)
    \/ ConcReset

SpecConcurrent == Init /\ [][NextConcurrent]_vars

----------------------------------------------------------------------------
(* Properties *)

\* a positive number: typeof 'number', greater than 0 (Infinity included)
PositiveNumber(ts) == (ts.k = "num" /\ ts.n > 0) \/ ts.k = "inf"
PresentNotList(v) == v \notin {"undef", "arr"}
TextMissingOrEmpty(t) == t.k = "undef" \/ TextLength(t) = 0

\* a record of the data model: accepted, with an integer timestamp > 0 and
\* lists (or nothing) for media and tags
ValidRecord(c) ==
    /\ validateContent(c) = "ok"
    /\ c.timestamp.k = "num" /\ c.timestamp.n > 0
    /\ ~PresentNotList(c.media)
    /\ ~PresentNotList(c.tags)

AllFail(log) == \A j \in 1..Len(log) : log[j] = "fail"
AllOk(log) == \A j \in 1..Len(log) : log[j] = "ok"

\* uploadContent has returned or thrown, and its logs are those of that call
UploadOver == pc \in {"failed", "uploaded"}

SurfacedIsThrown(dep, n) ==
    \E k \in ThrowKinds : result.error = Thrown(k, dep, n)

\* what uploadContent surfaces for the value e the last attempt threw
SurfacedFor(e) ==
    IF e.kind = "Error" THEN e
    ELSE IF e.kind = "undefined" THEN Error("Operation failed after retries")
    ELSE Error("Unknown error occurred")

C3_NoPinAfterStoreFailure ==
    (op = "content" /\ Len(storeLog) >= maxRetries /\ AllFail(storeLog))
    => /\ pinLog = <<>>
       /\ pc = "failed"
       /\ result.status = "err"
       /\ result.value = NoAddr

C3_Witness ==
    /\ pc = "failed"
    /\ op = "content"
    /\ Len(storeLog) = maxRetries
    /\ AllFail(storeLog)
    /\ pinLog = <<>>

\* C4: when the store succeeded and the pin step failed on all of its
\* maxRetries attempts, uploadContent fails and returns no content URI.
C4_PinFailureIsFatal ==
    (op = "content" /\ storeLog # <<>> /\ storeLog[Len(storeLog)] = "ok"
        /\ Len(pinLog) >= maxRetries /\ AllFail(pinLog))
    => /\ pc = "failed"
       /\ result.status = "err"
       /\ result.value = NoAddr

C4_Witness ==
    /\ pc = "failed"
    /\ op = "content"
    /\ storeLog # <<>> /\ storeLog[Len(storeLog)] = "ok"
    /\ Len(pinLog) = maxRetries
    /\ AllFail(pinLog)

----------------------------------------------------------------------------
(* Validation *)

\* uploadContent threw one of validateContent's errors
ValidationError ==
    /\ pc = "failed"
    /\ result.status = "err"
    /\ result.error.kind = "Error"
    /\ result.error.src \in ValidationMessages

\* no call of the store, of the pin service or of the delay timer was made
NoNetwork == storeLog = <<>> /\ pinLog = <<>> /\ delays = <<>>

\* the records the specification calls invalid
InvalidRecord(c) ==
    \/ TextMissingOrEmpty(c.text)
    \/ TextLength(c.text) > 100000
    \/ PresentNotList(c.media)
    \/ PresentNotList(c.tags)
    \/ ~PositiveNumber(c.timestamp)

\* C5 (as claimed): for every record that is invalid (text missing or empty,
\* text longer than 100,000, media or tags present but not a list, timestamp
\* not a positive number) uploadContent fails with the validation error and
\* no call of the store, the pin service or the delay timer is made.
C5_InvalidFailsFast_Original ==
    (op = "content" /\ InvalidRecord(content))
    => (ValidationError /\ NoNetwork)

\* every record validateContent rejects fails at once: the validation error
\* is thrown and no call of the store, the pin service or the timer is made
RejectedRecordMakesNoCall ==
    (op = "content" /\ validateContent(content) # "ok")
    => (ValidationError /\ NoNetwork)

\* C6 (as claimed): uploadContent rejects with a validation error every
\* record whose timestamp is not a positive number, and rejects no record on
\* account of its timestamp when the timestamp is a positive number.
C6_TimestampPositive_Original ==
    op = "content"
    => /\ ~PositiveNumber(content.timestamp) => ValidationError
       /\ PositiveNumber(content.timestamp)
          => ~(ValidationError
               /\ result.error.src = "Valid timestamp is required")

OtherFieldsValid(c) ==
    /\ PositiveNumber(c.timestamp)
    /\ ~PresentNotList(c.media)
    /\ ~PresentNotList(c.tags)

\* C7: with the other fields valid, uploadContent throws a validation error
\* for a text that is missing, empty or longer than 100,000, and for no text
\* of length 1 to 100,000.
C7_TextBounds ==
    (op = "content" /\ OtherFieldsValid(content))
    => IF TextMissingOrEmpty(content.text)
       THEN ValidationError /\ result.error.src = "Content text is required"
       ELSE IF TextLength(content.text) > 100000
       THEN ValidationError
            /\ result.error.src = "Content text exceeds maximum size"
       ELSE ~ValidationError

C7_Witness ==
    /\ pc = "store"
    /\ OtherFieldsValid(content)
    /\ TextLength(content.text) = 100000

----------------------------------------------------------------------------
(* Round trip *)

\* the gateway answered the last fetch with the bytes uploaded under the address
GatewayServed == fetchLog # <<>> /\ fetchLog[Len(fetchLog)].res = "ok"

\* equal in everything but metadata.compressed
SameModuloFlag(a, b) ==
    /\ a.text = b.text
    /\ a.media = b.media
    /\ a.timestamp = b.timestamp
    /\ a.tags = b.tags
    /\ a.metadata.note = b.metadata.note

\* retrieveContent (content-manager.new.ts) is over and the gateway served
RetrievedFromGateway ==
    pc = "retrieveDone" /\ variant = "new" /\ GatewayServed

\* C8 (as claimed): for every valid record r with text shorter than 1000 and
\* any caller-supplied metadata, retrieveContent(uploadContent(r)) succeeds,
\* equals r, and has metadata.compressed false or absent.
C8_RoundTripShort_Original ==
    (RetrievedFromGateway /\ ValidRecord(content)
        /\ TextLength(content.text) < 1000)
    => /\ retrieved.status = "ok"
       /\ SameModuloFlag(retrieved.content, content)
       /\ retrieved.content.metadata.compressed \in {"false", "absent"}

\* the round trip of a short text holds for the records whose metadata does
\* not carry compressed: true
RoundTripShortWithoutReservedKey ==
    (RetrievedFromGateway /\ ValidRecord(content)
        /\ TextLength(content.text) < 1000
        /\ content.metadata.compressed # "true")
    => /\ retrieved.status = "ok"
       /\ retrieved.content = content

\* no unpaired surrogate
WellFormed(text) == \A j \in 1..Len(text.runs) : text.runs[j].c # "LS"

\* the document uploadContent uploads holds an encoded text and the flag
StoredCompressed ==
    /\ doc.text # content.text
    /\ doc.metadata.k = "obj"
    /\ doc.metadata.compressed = "true"

\* retrieveContent gave back the original text with the flag cleared
RetrievedOriginal ==
    /\ retrieved.status = "ok"
    /\ retrieved.content.text = content.text
    /\ retrieved.content.metadata.k = "obj"
    /\ retrieved.content.metadata.compressed = "false"

\* C9 (as claimed): for every valid record with text longer than 1000 the
\* uploaded document has a text different from the original and
\* metadata.compressed true, and retrieveContent of the returned address
\* yields the original text with metadata.compressed false.
C9_RoundTripLong_Original ==
    /\ (op = "content" /\ doc # NoContent /\ ValidRecord(content)
            /\ TextLength(content.text) > 1000)
       => StoredCompressed
    /\ (RetrievedFromGateway /\ ValidRecord(content)
            /\ TextLength(content.text) > 1000)
       => RetrievedOriginal

\* C9 (amended): the same, for every valid record whose text is longer than
\* 1000 and holds no unpaired UTF-16 surrogate.
C9_RoundTripLong ==
    /\ (op = "content" /\ doc # NoContent /\ ValidRecord(content)
            /\ TextLength(content.text) > 1000 /\ WellFormed(content.text))
       => StoredCompressed
    /\ (RetrievedFromGateway /\ ValidRecord(content)
            /\ TextLength(content.text) > 1000 /\ WellFormed(content.text))
       => RetrievedOriginal

C9_Witness ==
    /\ RetrievedFromGateway
    /\ content.text = Str(<<[c |-> "e'", n |-> 1001]>>)
    /\ content.metadata = Meta("false", "x")
    /\ RetrievedOriginal

----------------------------------------------------------------------------
(* Gateways *)

\* C10 (as claimed): retrieveContent tries the endpoints in the order of
\* getContentGateways (primary gateway, mirror, pinning-service gateway);
\* when the first two fail and the third serves the document it returns that
\* document, and it throws only after all three have been tried.
C10_GatewayFallback_Original ==
    (variant = "new" /\ ValidRecord(content) /\ addr.prefix = 0
        /\ serving = {getContentGateways[3]})
    => /\ \A j \in 1..Len(fetchLog) : fetchLog[j].gw = getContentGateways[j]
       /\ (pc = "retrieveDone" /\ Decompress(doc).status = "ok")
          => retrieved = Decompress(doc)

\* the earlier retrieveContent does fall back: it asks its gateways in the
\* order of its list, returns the first document served, and throws only
\* after all three failed
OldRetrieveFallsBack ==
    variant = "old"
    => /\ \A j \in 1..Len(fetchLog) : fetchLog[j].gw = OldGateways[j]
       /\ \A j \in 1..(Len(fetchLog) - 1) : fetchLog[j].res # "ok"
       /\ (pc = "retrieveDone" /\ ~GatewayServed)
          => /\ Len(fetchLog) = Len(OldGateways)
             /\ retrieved.status = "err"
       /\ (pc = "retrieveDone" /\ GatewayServed)
          => /\ retrieved.status = "ok"
             /\ retrieved.content = doc

\* C11 (as claimed): when every retrieval endpoint fails, retrieveContent
\* fails after attempting each of the three endpoints exactly once, with no
\* endpoint retried and no backoff delay taken.
C11_AllEndpointsFail_Original ==
    (pc = "retrieveDone" /\ variant = "new" /\ ValidRecord(content)
        /\ serving = {})
    => /\ retrieved.status = "err"
       /\ Len(fetchLog) = Len(getContentGateways)
       /\ \A j \in 1..Len(fetchLog) : fetchLog[j].gw = getContentGateways[j]
       /\ delays = <<>>

\* the earlier retrieveContent, when none of its gateways serves, throws
\* after asking each of the three once, with no delay
OldRetrieveAsksEachOnce ==
    (pc = "retrieveDone" /\ variant = "old" /\ serving = {})
    => /\ retrieved.status = "err"
       /\ retrieved.error = Error("Could not retrieve content from any gateway")
       /\ Len(fetchLog) = Len(OldGateways)
       /\ \A j \in 1..Len(fetchLog) : fetchLog[j].gw = OldGateways[j]
       /\ delays = <<>>

----------------------------------------------------------------------------
(* verifyContent *)

VerifyOver == pc = "retrieveDone" /\ variant = "verify"

\* C12: verifyContent never raises: it returns true only when retrieveContent
\* succeeded and the result has a string text and a numeric timestamp, and
\* false in every other case, among them the endpoint failing and the
\* decompression of the fetched document failing.
C12_VerifyNeverRaises ==
    VerifyOver
    => /\ verified \in {"true", "false"}
       /\ verified = "true"
          <=> /\ retrieved.status = "ok"
              /\ retrieved.content.text.k = "str"
              /\ retrieved.content.timestamp.k = "num"
       /\ ~GatewayServed => verified = "false"
       /\ Decompress(doc).status = "err" => verified = "false"

C12_Witness ==
    /\ VerifyOver
    /\ GatewayServed
    /\ Decompress(doc).status = "err"
    /\ retrieved.status = "err"
    /\ verified = "false"

----------------------------------------------------------------------------
(* Addresses and documents *)

\* C13 (as claimed): every successful uploadContent or uploadMedia call
\* returns ipfs://<cid>, <cid> being the address the primary store returned
\* for that call (never the bare address, never the pin service's).
C13_ReturnsStoreUri_Original ==
    pc = "uploaded"
    => /\ result.status = "ok"
       /\ result.value = IpfsUri(storeBlob(doc))

\* uploadContent and uploadMedia of content-manager.new.ts return the URI of
\* the store's address
NewUploadsReturnStoreUri ==
    (pc = "uploaded" /\ op \in {"content", "media"})
    => /\ result.status = "ok"
       /\ result.value = IpfsUri(storeBlob(doc))

\* the base64 of the compressed text
Encoded(text) == ToBase64(gzip(BufferFrom(text)))

\* uploadContent has made the document it writes to the store
DocumentWritten == op = "content" /\ doc # NoContent

\* C14 (as claimed): in every document uploadContent writes to the store,
\* metadata.compressed true means the text is the reversible encoding of the
\* caller's text, and false or absent means the text is the caller's text
\* verbatim, also when the caller's metadata carried a compressed key.
C14_FlagTellsEncoding_Original ==
    (DocumentWritten /\ ValidRecord(content))
    => IF CompressedFlag(doc)
       THEN doc.text = Encoded(content.text)
       ELSE doc.text = content.text

\* the flag tells the encoding for the records whose metadata does not carry
\* compressed: true
FlagTellsEncodingWithoutReservedKey ==
    (DocumentWritten /\ ValidRecord(content)
        /\ content.metadata.compressed # "true")
    => IF CompressedFlag(doc)
       THEN doc.text = Encoded(content.text)
       ELSE doc.text = content.text

\* C15: uploadContent compresses exactly when the text is longer than 1000:
\* then the stored text is the base64 of the compressed text and
\* metadata.compressed is true; a text of length up to 1000 (1000 included)
\* is stored untouched and the metadata is the caller's, no flag being set.
C15_CompressesAbove1000 ==
    DocumentWritten
    => IF TextLength(content.text) > 1000
       THEN /\ doc.text = Encoded(content.text)
            /\ doc.metadata.k = "obj"
            /\ doc.metadata.compressed = "true"
       ELSE /\ doc.text = content.text
            /\ doc.metadata = content.metadata

C15_Witness ==
    /\ DocumentWritten
    /\ pc = "uploaded"
    /\ TextLength(content.text) = 1000
    /\ doc.text = content.text
    /\ content.metadata = NoMeta

\* C16: with a deterministic store, uploadContent called twice on the same
\* record returns the same URI both times, whatever the failed attempts and
\* the answers of the pin service in each call.
C16_IdempotentAddress ==
    (pc = "uploaded" /\ prior # NoPrior)
    => /\ prior.content = content
       /\ prior.result.status = "ok"
       /\ result.status = "ok"
       /\ result.value = prior.result.value

C16_Witness ==
    /\ pc = "uploaded"
    /\ prior # NoPrior
    /\ prior.storeLog = <<"ok">>
    /\ prior.pinLog = <<"fail", "ok">>
    /\ storeLog = <<"fail", "fail", "ok">>
    /\ pinLog = <<"ok">>
    /\ TextLength(content.text) > 1000
    /\ result.value = prior.result.value

----------------------------------------------------------------------------
(* uploadMedia *)

MediaUpload == op \in {"media", "oldMedia"}

\* the upload in flight keeps to the protocol of uploadContent: a step that
\* failed for good was attempted maxRetries times, with the backoff delays
\* between the attempts; the pin step is not attempted after the store step
\* failed for good; a pin step that failed for good fails the call
KeepsUploadProtocol ==
    /\ (pc = "failed" /\ storeLog # <<>> /\ AllFail(storeLog))
       => /\ Len(storeLog) = maxRetries
          /\ delays = <<retryDelay, 2 * retryDelay>>
          /\ pinLog = <<>>
          /\ result.status = "err"
    /\ (pinLog # <<>> /\ AllFail(pinLog) /\ pc \in {"failed", "uploaded"})
       => /\ Len(pinLog) = maxRetries
          /\ pc = "failed"
          /\ result.status = "err"

\* C17 (as claimed): uploadMedia follows the upload protocol of
\* uploadContent: the store call and the pin call are each attempted up to
\* maxRetries times with backoff, a permanent store failure skips the pin
\* step, a permanent pin failure fails the call, and the payload is not
\* compressed.
C17_MediaSameProtocol_Original ==
    MediaUpload => (KeepsUploadProtocol /\ doc = content)

\* uploadMedia of content-manager.new.ts keeps to the protocol
NewMediaKeepsProtocol ==
    op = "media" => (KeepsUploadProtocol /\ doc = content)

----------------------------------------------------------------------------
(* The argument of retrieveContent *)

\* every URL requested is built from the bare address of the document
RequestsBareAddress ==
    \A j \in 1..Len(fetchLog) : fetchLog[j].path = storeBlob(doc)

\* C18 (as claimed): retrieveContent accepts an address with or without the
\* scheme prefix: given "ipfs://" + a or a, it requests the same gateway
\* URLs, built from the bare address, and gives the same result.
C18_PrefixOptional_Original ==
    (variant \in {"new", "old"} /\ ValidRecord(content))
    => /\ RequestsBareAddress
       /\ (pc = "retrieveDone" /\ fetchLog[1].gw \in serving
            /\ Decompress(doc).status = "ok")
          => retrieved.status = "ok"

\* retrieveContent of content-manager.new.ts strips the prefix
NewRetrieveStripsPrefix ==
    variant \in {"new", "verify"}
    => /\ RequestsBareAddress
       /\ (pc = "retrieveDone" /\ fetchLog[1].gw \in serving
            /\ Decompress(doc).status = "ok")
          => retrieved.status = "ok"

----------------------------------------------------------------------------
(* TalesRegistry *)

\* the ids of the tales of an author, ascending
RECURSIVE AuthorTales(_, _)
AuthorTales(ts, author) ==
    IF ts = <<>> THEN <<>>
    ELSE LET front == AuthorTales(SubSeq(ts, 1, Len(ts) - 1), author)
         IN  IF ts[Len(ts)].author = author THEN Append(front, Len(ts))
             ELSE front

\* C19 (as claimed): getTalesByAuthor(author, start, count) returns the ids
\* of the author's tales at the 0-based positions start .. start+count-1 of
\* the author's list, so that consecutive pages list each tale exactly once.
C19_Pagination_Original ==
    (page # NoPage
        /\ Len(AuthorTales(tales, page.author)) >= page.start + page.count)
    => page.result = SubSeq(AuthorTales(tales, page.author), page.start + 1,
                            page.start + page.count)

\* what getTalesByAuthor does return: the first count tales of the author
\* among the tales of id greater than start, then zeros
PageScansIdsAboveStart ==
    page # NoPage
    => \A k \in 1..page.count :
         LET later == SelectSeq(AuthorTales(tales, page.author),
                                LAMBDA id : id > page.start)
         IN  page.result[k] = IF k <= Len(later) THEN later[k] ELSE 0

----------------------------------------------------------------------------
(* TalesUserRegistry *)

\* C20 (as claimed): a subname is held by at most one account: after any
\* sequence of claimSubname and adminReclaimSubname calls no two accounts
\* have the same non-empty userToSubname, and every non-empty userToSubname
\* is marked claimed in isSubnameClaimed.
C20_SubnameUnique_Original ==
    /\ \A a, b \in Accounts :
         (a # b /\ userToSubname[a] # EmptySubname)
         => userToSubname[a] # userToSubname[b]
    /\ \A a \in Accounts :
         userToSubname[a] # EmptySubname
         => userToSubname[a] \in isSubnameClaimed

\* claimSubname reverts for a subname that is claimed, for one that is not
\* made of 3 to 20 characters of 0-9 and a-z, and changes nothing then
ClaimOfClaimedReverts ==
    [][(tx'.fn = "claimSubname"
          /\ \/ tx'.subname \in isSubnameClaimed
             \/ Len(tx'.subname) < SubnameMinLength
             \/ Len(tx'.subname) > SubnameMaxLength
             \/ \E j \in 1..Len(tx'.subname) :
                   tx'.subname[j] \notin Digits \cup LowerCase)
       => (tx'.reverted /\ UNCHANGED <<isSubnameClaimed, userToSubname>>)]_vars

----------------------------------------------------------------------------
(* The retry loop *)

\* the attempts made so far by the retry() that is running
AttemptsOf(p) == IF p \in {"store", "storeWait"} THEN storeLog ELSE pinLog

C22_UriResultReturned_Original ==
    Retries(op)
    => \A j \in 1..Len(pinLog) :
         pinLog[j] = "ok" => (j = Len(pinLog) /\ pc = "uploaded")

\* what retry() of content-manager.new.ts does with such a result: it is
\* returned only when verifyIPFS answers true; otherwise the attempt counts
\* as failed with 'Content verification failed' and the loop goes on
UriResultIsVerified ==
    (Retries(op) /\ pinLog # <<>> /\ pinLog[Len(pinLog)] = "ok")
    => \/ pc = "uploaded"
       \/ /\ lastError = Error("Content verification failed")
          /\ \/ pc \in {"pin", "pinWait"} /\ Len(pinLog) < maxRetries
             \/ /\ pc = "failed"
                /\ Len(pinLog) = maxRetries
                /\ result = Threw(Error("Content verification failed"))

----------------------------------------------------------------------------
(* Decoding errors of retrieveContent *)

\* fetch j of the retrieveContent call got a document it cannot decode: a
\* body that is not JSON, or a document flagged compressed whose text is not
\* the base64 of a gzip stream
Undecodable(j) ==
    \/ fetchLog[j].res = "badjson"
    \/ /\ fetchLog[j].res = "ok"
       /\ CompressedFlag(fetchLog[j].path.doc)
       /\ ~gunzipOk(BufferFromBase64(fetchLog[j].path.doc.text))

\* the error of decoding the document of fetch j
DecodeError(j) ==
    IF fetchLog[j].res = "badjson"
    THEN Thrown("Error", "json", 1)
    ELSE Error("incorrect header check")

\* the errors that tell the caller the content could not be fetched
NotFoundErrors ==
    {Error("Failed to fetch content"),
     Error("Could not retrieve content from any gateway"),
     Error("Failed to retrieve content")}

\* C24 (as claimed): a decompression or decoding error during
\* retrieveContent (a fetched document that cannot be decoded) propagates to
\* the caller as that error; it is not retried, and it is never reported as
\* the content-not-found retrieval error.
C24_DecodeErrorPropagates_Original ==
    (pc = "retrieveDone" /\ variant \in {"new", "old"} /\ ValidRecord(content))
    => \A j \in 1..Len(fetchLog) :
         Undecodable(j)
         => /\ j = Len(fetchLog)
            /\ retrieved.status = "err"
            /\ retrieved.error = DecodeError(j)
            /\ retrieved.error \notin NotFoundErrors

\* retrieveContent of content-manager.new.ts rethrows the decoding error
\* after its one fetch
NewRetrievePropagatesDecodeError ==
    (pc = "retrieveDone" /\ variant = "new" /\ Undecodable(1))
    => /\ Len(fetchLog) = 1
       /\ retrieved.status = "err"
       /\ retrieved.error = DecodeError(1)
       /\ retrieved.error \notin NotFoundErrors

----------------------------------------------------------------------------
(* What uploadContent leaves alone *)

\* the fields other than text and metadata.compressed are the same in a and b
OtherFieldsSame(a, b) ==
    /\ a.media = b.media
    /\ a.timestamp = b.timestamp
    /\ a.tags = b.tags
    /\ a.metadata.note = b.metadata.note

----------------------------------------------------------------------------
(* Concurrent uploadContent calls *)

\* log is the log of a retry() running alone: no attempt after one that
\* succeeded, at most maxRetries attempts
AloneLog(log) ==
    /\ Len(log) <= maxRetries
    /\ \A j \in 1..(Len(log) - 1) : log[j] = "fail"

EndsOk(log) == log # <<>> /\ log[Len(log)] = "ok"

\* the waits a retry() running alone has requested when its attempts so far
\* answered log
AloneWaits(log) ==
    LET fails == Cardinality({j \in 1..Len(log) : log[j] = "fail"})
        waits == IF fails < maxRetries THEN fails ELSE maxRetries - 1
    IN  [j \in 1..waits |-> retryDelay * (2 ^ (j - 1))]

\* where an uploadContent call running alone stands when its store and pin
\* attempts so far answered sl and pl
AlonePcs(sl, pl) ==
    IF sl = <<>> THEN {"store"}
    ELSE IF ~EndsOk(sl)
    THEN IF Len(sl) = maxRetries THEN {"failed"} ELSE {"storeWait", "store"}
    ELSE IF pl = <<>> THEN {"pin"}
    ELSE IF EndsOk(pl) THEN {"uploaded"}
    ELSE IF Len(pl) = maxRetries THEN {"failed"} ELSE {"pinWait", "pin"}

\* the call s is as a call of the same record running alone against the
\* dependency responses s got
AsAlone(s) ==
    IF validateContent(s.content) # "ok"
    THEN /\ s.pc = "failed"
         /\ s.storeLog = <<>> /\ s.pinLog = <<>> /\ s.delays = <<>>
         /\ s.result = Threw(Error(validateContent(s.content)))
    ELSE /\ s.content \in ConcContents
         /\ s.doc = JSONstringify(compressContent(s.content))
         /\ AloneLog(s.storeLog) /\ AloneLog(s.pinLog)
         /\ s.pinLog # <<>> => EndsOk(s.storeLog)
         /\ s.pc \in AlonePcs(s.storeLog, s.pinLog)
         /\ s.delays = AloneWaits(s.storeLog) \o AloneWaits(s.pinLog)
         /\ s.result =
              IF s.pc = "uploaded" THEN Returned(IpfsUri(storeBlob(s.doc)))
              ELSE IF s.pc = "failed"
              THEN Threw(UploadCatch(RetryThrow(s.lastError)))
              ELSE NoResult
         /\ s.pc = "failed"
            => \E kind \in ThrowKinds :
                 s.lastError = Thrown(kind, IF EndsOk(s.storeLog) THEN "pin"
                                            ELSE "store", maxRetries)

----------------------------------------------------------------------------
(* Appreciations *)

\* the accounts that have appreciated tale id
Appreciators(id) == {a \in Accounts : <<a, id>> \in hasAppreciated}

\* C27: after any sequence of appreciateTale and batchAppreciateTales calls
\* an account has appreciated each tale at most once (an appreciation by an
\* account that has appreciated the tale reverts and changes nothing) and
\* the appreciationCount of every tale equals the number of accounts a with
\* hasAppreciated[a][tale] true.
C27_AppreciatedOnce ==
    /\ [](/\ \A id \in 1..Len(tales) :
               tales[id].appreciationCount = Cardinality(Appreciators(id))
          /\ \A pair \in hasAppreciated : pair[2] \in 1..taleCount)
    /\ [][\A a \in Authors, id \in 1..MaxTales, ok \in BOOLEAN :
            (<<a, id>> \in hasAppreciated /\ appreciateTale(a, id, ok))
            => (receipt'.reverted /\ UNCHANGED <<hasAppreciated, tales>>)]_vars

\* both authors have appreciated tale 1, one of them in a batch with tale 2
C27_Witness ==
    /\ taleCount >= 2
    /\ Appreciators(1) = Authors
    /\ tales[1].appreciationCount = 2
    /\ tales[2].appreciationCount = 1
    /\ receipt = Receipt("batchAppreciateTales", <<>>)

\* the batch ids cannot be appreciated as a whole by sender: it is empty, has
\* more than 50 ids, or holds an id that is no tale, that sender has
\* appreciated, or that it holds twice
BadBatch(sender, ids) ==
    \/ Len(ids) = 0
    \/ Len(ids) > BatchAppreciateLimit
    \/ \E k \in 1..Len(ids) :
         \/ ids[k] < 1 \/ ids[k] > taleCount
         \/ <<sender, ids[k]>> \in hasAppreciated
         \/ \E h \in 1..(k - 1) : ids[h] = ids[k]

\* nothing of the appreciations changes
NothingAppreciated == UNCHANGED <<hasAppreciated, tales>>

\* every tale of ids is appreciated exactly once by sender, and nothing else
AllAppreciated(sender, ids) ==
    /\ hasAppreciated' = hasAppreciated \cup {<<sender, ids[k]>> : k \in 1..Len(ids)}
    /\ Len(tales') = Len(tales)
    /\ \A id \in 1..Len(tales) :
         tales'[id] = IF \E k \in 1..Len(ids) : ids[k] = id
                      THEN [tales[id] EXCEPT !.appreciationCount = @ + 1]
                      ELSE tales[id]

\* C28 (as claimed): batchAppreciateTales is all-or-nothing: if the batch is
\* empty, has more than 50 ids, or contains any id that is invalid, already
\* appreciated by the caller, or repeated within the batch, the whole call
\* reverts and no hasAppreciated flag or appreciationCount is changed;
\* otherwise every listed tale is appreciated exactly once.
C28_BatchAllOrNothing_Original ==
    [][\A a \in Authors, ids \in BatchesSent, ok \in BOOLEAN :
         (ok \in RewardAnswers /\ batchAppreciateTales(a, ids, ok))
         => IF BadBatch(a, ids)
            THEN receipt'.reverted /\ NothingAppreciated
            ELSE ~receipt'.reverted /\ AllAppreciated(a, ids)]_vars

\* C28: batchAppreciateTales is all-or-nothing: if the batch is empty, has
\* more than 50 ids, contains any id that is invalid, already appreciated by
\* the caller or repeated within the batch, or if a reward manager is set and
\* its afterAppreciate call reverts, the whole call reverts and no
\* hasAppreciated flag or appreciationCount is changed; otherwise every
\* listed tale is appreciated exactly once.
C28_BatchAllOrNothing ==
    [][\A a \in Authors, ids \in BatchesSent, ok \in BOOLEAN :
         (ok \in RewardAnswers /\ batchAppreciateTales(a, ids, ok))
         => IF BadBatch(a, ids) \/ ~RewardCallPasses(ok)
            THEN receipt'.reverted /\ NothingAppreciated
            ELSE ~receipt'.reverted /\ AllAppreciated(a, ids)]_vars

\* a batch went through after a batch of the same account reverted: tales 1
\* and 2 are appreciated by alice, tale 3 by nobody
C28_Witness ==
    /\ taleCount = 3
    /\ receipt = Receipt("batchAppreciateTales", <<>>)
    /\ hasAppreciated = {<<"alice", 1>>, <<"alice", 2>>}
    /\ tales[1].appreciationCount = 1
    /\ tales[2].appreciationCount = 1
    /\ tales[3].appreciationCount = 0
    /\ rewardManager # ZeroAddress

\* appreciations leave the author, the content hash, the parent and the
\* reply count of every tale as they are
AppreciationKeepsTales ==
    [][receipt'.fn \in {"appreciateTale", "batchAppreciateTales"}
       => /\ taleCount' = taleCount
          /\ Len(tales') = Len(tales)
          /\ \A id \in 1..Len(tales) :
               tales'[id] = [tales[id] EXCEPT
                   !.appreciationCount = tales'[id].appreciationCount]]_vars

----------------------------------------------------------------------------
(* Tale ids and replies *)

\* the transaction of the step created tales
Creates ==
    /\ receipt' # receipt
    /\ receipt'.fn \in {"createTale", "createReply", "batchCreateTales"}
    /\ ~receipt'.reverted

\* C29: tale ids are assigned consecutively from 1 and never reused: after
\* any sequence of createTale, createReply and batchCreateTales calls,
\* taleCount equals the number of tales created (every creating transaction
\* raises it by the number of ids it returns, and nothing lowers it), exactly
\* the ids 1..taleCount have a non-zero author, the author, contentHash and
\* parentId of an existing tale never change, and batchCreateTales with n
\* hashes (1 <= n <= 20) raises taleCount by exactly n and returns the n new
\* consecutive ids in input order.
C29_ConsecutiveIds ==
    /\ [](/\ Len(tales) = taleCount
          /\ \A id \in 1..taleCount : tales[id].author \in Accounts)
    /\ [][/\ taleCount' >= taleCount
          /\ \A id \in 1..Len(tales) :
               /\ id <= Len(tales')
               /\ tales'[id].author = tales[id].author
               /\ tales'[id].contentHash = tales[id].contentHash
               /\ tales'[id].parentId = tales[id].parentId
          /\ Creates
             => /\ taleCount' = taleCount + Len(receipt'.ids)
                /\ receipt'.ids = [j \in 1..Len(receipt'.ids) |-> taleCount + j]
          /\ ~Creates => taleCount' = taleCount]_vars
    /\ [][\A a \in Authors, hs \in HashesSent :
            (Len(hs) >= 1 /\ Len(hs) <= BatchCreateLimit
                /\ batchCreateTales(a, hs))
            => /\ taleCount' = taleCount + Len(hs)
               /\ receipt' = Receipt("batchCreateTales",
                                     [j \in 1..Len(hs) |-> taleCount + j])
               /\ \A j \in 1..Len(hs) :
                    tales'[taleCount + j] = NewTale(a, hs[j], 0)]_vars

\* batchCreateTales has created tales 2 and 3 with two different hashes
\* after a tale 1 of the other author
C29_Witness ==
    /\ taleCount = 3
    /\ receipt = Receipt("batchCreateTales", <<2, 3>>)
    /\ tales[1].author = "alice"
    /\ tales[2] = NewTale("bob", "QmOther", 0)
    /\ tales[3] = NewTale("bob", "QmTestHash123", 0)

\* the replies to tale id
Replies(id) == {j \in 1..Len(tales) : tales[j].parentId = id}

\* C30: createReply reverts unless the parent id is an existing tale, and
\* after any sequence of operations the stored parentId of every reply equals
\* the parent id it was created with and is strictly smaller than the id of
\* the reply, and the replyCount of every tale equals the number of tales
\* whose parentId is the id of that tale.
C30_Replies ==
    /\ [](\A id \in 1..Len(tales) :
            /\ tales[id].parentId >= 0
            /\ tales[id].parentId < id
            /\ tales[id].replyCount = Cardinality(Replies(id)))
    /\ [][\A a \in Authors, parent \in 0..MaxTales, h \in Hashes :
            createReply(a, parent, h)
            => IF parent \in 1..taleCount
               THEN /\ ~receipt'.reverted
                    /\ receipt'.ids = <<taleCount + 1>>
                    /\ tales'[taleCount + 1] = NewTale(a, h, parent)
               ELSE /\ receipt'.reverted
                    /\ UNCHANGED <<taleCount, tales>>]_vars

\* tale 3 is a reply to tale 2, itself a reply to tale 1
C30_Witness ==
    /\ taleCount = 3
    /\ tales[2].parentId = 1
    /\ tales[3].parentId = 2
    /\ tales[1].replyCount = 1
    /\ tales[2].replyCount = 1
    /\ receipt = Receipt("createReply", <<3>>)
====
